---- MODULE Spec2Model ----
(***************************************************************************)
(* State-machine model of the Anchor program `voting`                      *)
(* (programs/voting/src/lib.rs).                                           *)
(*                                                                         *)
(* The ledger is the map `accounts` from program-derived addresses to      *)
(* account contents.  A transaction carrying one instruction is executed   *)
(* atomically by the handler of its instruction (InitializePoll,           *)
(* InitializeCandidate, Vote) and its outcome is then returned to the      *)
(* client (Respond).  An execution is the account validation that          *)
(* #[derive(Accounts)] generates, the handler body, and the serialisation  *)
(* of the accounts back into their data buffers on exit.                   *)
(* A failed transaction leaves the ledger as it was (the runtime discards  *)
(* the writes of a failed transaction).                                    *)
(*                                                                         *)
(* Rent and lamport balances are not modelled: the payer is assumed to     *)
(* hold enough lamports for every allocation.                              *)
(***************************************************************************)
EXTENDS Integers, Sequences, FiniteSets, TLC

VARIABLES accounts, tx, result, prev

vars == <<accounts, tx, result, prev>>

(***************************************************************************)
(* Bounds of the model.                                                    *)
(***************************************************************************)
MaxPollId == 2
NumKeys == 2
MaxAccounts == 4

PollIds == 1..MaxPollId
Keys == 1..NumKeys

(***************************************************************************)
(* Program constants.                                                      *)
(***************************************************************************)
DISCRIMINATOR_LEN == 8
POLL_DESCRIPTION_MAX_LEN == 280
CANDIDATE_NAME_MAX_LEN == 280
CANDIDATE_DESCRIPTION_MAX_LEN == 280
U64_LEN == 8
PUBKEY_LEN == 32
STRING_PREFIX_LEN == 4

(***************************************************************************)
(* Strings are sequences of bytes; Str(n, b) is the string of n bytes b.   *)
(***************************************************************************)
Str(n, b) == [i \in 1..n |-> b]

(***************************************************************************)
(* Account data structs and their Borsh-serialised sizes.  INIT_SPACE is   *)
(* what #[derive(InitSpace)] computes from the field types and max_len.    *)
(***************************************************************************)
Poll(poll_id, description, candidates, start_time, end_time) ==
    [poll_id |-> poll_id, description |-> description, candidates |-> candidates,
     start_time |-> start_time, end_time |-> end_time]

Candidate(candidate_id, name, description) ==
    [candidate_id |-> candidate_id, name |-> name, description |-> description]

VoteRecord(voter, poll_id, candidate) ==
    [voter |-> voter, poll_id |-> poll_id, candidate |-> candidate]

(* PollInitSpace with the description's max_len taken one byte too large. *)
PollInitSpace_OneByteMore ==
    U64_LEN + (STRING_PREFIX_LEN + POLL_DESCRIPTION_MAX_LEN + 1)
        + U64_LEN + U64_LEN + U64_LEN

PollInitSpace ==
    U64_LEN + (STRING_PREFIX_LEN + POLL_DESCRIPTION_MAX_LEN) + U64_LEN + U64_LEN + U64_LEN

CandidateInitSpace ==
    PUBKEY_LEN + (STRING_PREFIX_LEN + CANDIDATE_NAME_MAX_LEN)
               + (STRING_PREFIX_LEN + CANDIDATE_DESCRIPTION_MAX_LEN)

VoteRecordInitSpace == PUBKEY_LEN + U64_LEN + PUBKEY_LEN

PollSpace == DISCRIMINATOR_LEN + PollInitSpace
CandidateSpace == DISCRIMINATOR_LEN + CandidateInitSpace
VoteSpace == DISCRIMINATOR_LEN + VoteRecordInitSpace

SerializedSize(disc, data) ==
    CASE disc = "Poll" ->
            DISCRIMINATOR_LEN + U64_LEN + (STRING_PREFIX_LEN + Len(data.description))
                + U64_LEN + U64_LEN + U64_LEN
      [] disc = "Candidate" ->
            DISCRIMINATOR_LEN + PUBKEY_LEN + (STRING_PREFIX_LEN + Len(data.name))
                + (STRING_PREFIX_LEN + Len(data.description))
      [] disc = "VoteRecord" ->
            DISCRIMINATOR_LEN + PUBKEY_LEN + U64_LEN + PUBKEY_LEN

(***************************************************************************)
(* Program-derived addresses.  An address is identified with the seeds it  *)
(* is derived from, so distinct seeds give distinct addresses.             *)
(***************************************************************************)
find_program_address(seeds) == seeds

(* CandidateSeeds with the namespace tag of the vote accounts. *)
CandidateSeeds_VoteTag(poll_id, key) == <<"vote", poll_id, key>>

PollSeeds(poll_id) == <<"poll", poll_id>>
CandidateSeeds(poll_id, key) == <<"candidate", poll_id, key>>
VoteSeeds(poll_id, key) == <<"vote", poll_id, key>>

PollAddress(p) == find_program_address(PollSeeds(p))
CandidateAddress(p, k) == find_program_address(CandidateSeeds(p, k))
VoteAddress(p, k) == find_program_address(VoteSeeds(p, k))

Addresses ==
    {PollAddress(p) : p \in PollIds}
        \cup {CandidateAddress(p, k) : p \in PollIds, k \in Keys}
        \cup {VoteAddress(p, k) : p \in PollIds, k \in Keys}

(***************************************************************************)
(* Accounts.  An address nobody allocated is an empty account owned by the *)
(* system program; an allocated one is owned by this program and holds a   *)
(* discriminator, a data buffer of `space` bytes and the struct in it.     *)
(***************************************************************************)
SYSTEM_PROGRAM == "system"
PROGRAM_ID == "voting"

Unallocated == [owner |-> SYSTEM_PROGRAM]

Allocated(disc, space, data) ==
    [owner |-> PROGRAM_ID, disc |-> disc, space |-> space, data |-> data]

Exists(acc, a) == acc[a].owner = PROGRAM_ID

Existing(acc) == {a \in Addresses : Exists(acc, a)}

Ok == "Ok"
NoTx == [ix |-> "none"]
NoResult == [err |-> "none", logs |-> <<>>]

Outcome(err, acc) == [err |-> err, accounts |-> acc]

(***************************************************************************)
(* Account validation generated by #[derive(Accounts)].                    *)
(***************************************************************************)

(* Signer<'info>: the account must have signed the transaction. *)
SignerCheck(t) == IF t.is_signer THEN Ok ELSE "AccountNotSigner"

(* AccountTryFrom that accepts whatever account it is given. *)
AccountTryFrom_Unchecked(acc, a, disc) == Ok

(* Account<'info, T> without init: the account must be allocated, owned by *)
(* the program, and carry T's discriminator.                               *)
AccountTryFrom(acc, a, disc) ==
    IF acc[a].owner = SYSTEM_PROGRAM THEN "AccountNotInitialized"
    ELSE IF acc[a].disc # disc THEN "AccountDiscriminatorMismatch"
    ELSE Ok

(* SeedsCheck that accepts whatever address it is given. *)
SeedsCheck_Unchecked(a, seeds) == Ok

(* seeds = [...], bump: the account passed must be the derived address. *)
SeedsCheck(a, seeds) ==
    IF a = find_program_address(seeds) THEN Ok ELSE "ConstraintSeeds"

(* The struct read from a freshly allocated, zeroed data buffer. *)
Zeroed(disc) ==
    CASE disc = "Poll" -> Poll(0, <<>>, 0, 0, 0)
      [] disc = "Candidate" -> Candidate(0, <<>>, <<>>)
      [] disc = "VoteRecord" -> VoteRecord(0, 0, 0)

(* AccountInit that allocates over an account already in use. *)
AccountInit_Reallocates(acc, a, disc, space) ==
    Outcome(Ok, [acc EXCEPT ![a] = Allocated(disc, space, Zeroed(disc))])

(* init: the system program allocates the account, and refuses when the    *)
(* address is already in use.                                              *)
AccountInit(acc, a, disc, space) ==
    IF Exists(acc, a) THEN Outcome("AccountAlreadyInUse", acc)
    ELSE Outcome(Ok, [acc EXCEPT ![a] = Allocated(disc, space, Zeroed(disc))])

(* init_if_needed: allocate when the account is still owned by the system *)
(* program, otherwise load the existing account of the expected type.      *)
AccountInitIfNeeded(acc, a, disc, space) ==
    IF acc[a].owner = SYSTEM_PROGRAM
    THEN Outcome(Ok, [acc EXCEPT ![a] = Allocated(disc, space, Zeroed(disc))])
    ELSE IF acc[a].disc # disc THEN Outcome("AccountDiscriminatorMismatch", acc)
    ELSE IF acc[a].space # space THEN Outcome("ConstraintSpace", acc)
    ELSE Outcome(Ok, acc)

(* Exit: every account of the context that the program owns is serialised *)
(* back into its data buffer, which fails when the struct does not fit.    *)
Fits(acc, a) ==
    Exists(acc, a) => SerializedSize(acc[a].disc, acc[a].data) <= acc[a].space

AccountsExit(acc, addrs) ==
    IF \A i \in 1..Len(addrs) : Fits(acc, addrs[i])
    THEN Outcome(Ok, acc)
    ELSE Outcome("AccountDidNotSerialize", acc)

(* The first error of a sequence of checks, Ok when there is none. *)
RECURSIVE FirstError(_)
FirstError(checks) ==
    IF checks = <<>> THEN Ok
    ELSE IF Head(checks) # Ok THEN Head(checks)
    ELSE FirstError(Tail(checks))

(***************************************************************************)
(* The three Accounts structs.  Fields without init are loaded in order of *)
(* declaration, then the init field is created, then the remaining         *)
(* constraints (seeds) of the other fields are checked.                    *)
(***************************************************************************)
(* The candidate and vote accounts declared init_if_needed instead of init. *)
InitCandidateAccount_IfNeeded(acc, a) ==
    AccountInitIfNeeded(acc, a, "Candidate", CandidateSpace)

InitVoteAccount_IfNeeded(acc, a) ==
    AccountInitIfNeeded(acc, a, "VoteRecord", VoteSpace)

(* The poll account declared init instead of init_if_needed. *)
InitPollAccount_CreateOnly(acc, a) == AccountInit(acc, a, "Poll", PollSpace)

InitPollAccount(acc, a) == AccountInitIfNeeded(acc, a, "Poll", PollSpace)

InitCandidateAccount(acc, a) == AccountInit(acc, a, "Candidate", CandidateSpace)

InitVoteAccount(acc, a) == AccountInit(acc, a, "VoteRecord", VoteSpace)

(* InitializePollAccounts without the seeds constraint on poll. *)
InitializePollAccounts_SeedsUnchecked(acc, t) ==
    IF SignerCheck(t) # Ok THEN Outcome(SignerCheck(t), acc)
    ELSE InitPollAccount(acc, t.accs.poll)

InitializePollAccounts(acc, t) ==
    LET pre == FirstError(<<SignerCheck(t),
                            SeedsCheck(t.accs.poll, PollSeeds(t.poll_id))>>)
    IN IF pre # Ok THEN Outcome(pre, acc)
       ELSE InitPollAccount(acc, t.accs.poll)

InitializeCandidateAccounts(acc, t) ==
    LET pre == FirstError(<<SignerCheck(t),
                            AccountTryFrom(acc, t.accs.poll, "Poll"),
                            SeedsCheck(t.accs.candidate,
                                       CandidateSeeds(t.poll_id, t.signer))>>)
        created == InitCandidateAccount(acc, t.accs.candidate)
        post == SeedsCheck(t.accs.poll, PollSeeds(t.poll_id))
    IN IF pre # Ok THEN Outcome(pre, acc)
       ELSE IF created.err # Ok THEN created
       ELSE Outcome(post, created.accounts)

(* VoteAccounts with the candidate declared as an unchecked account. *)
VoteAccounts_CandidateUnchecked(acc, t) ==
    LET pre == FirstError(<<SignerCheck(t),
                            AccountTryFrom(acc, t.accs.poll, "Poll"),
                            SeedsCheck(t.accs.vote, VoteSeeds(t.poll_id, t.signer))>>)
        created == InitVoteAccount(acc, t.accs.vote)
        post == FirstError(<<SeedsCheck(t.accs.poll, PollSeeds(t.poll_id)),
                             SeedsCheck(t.accs.candidate,
                                        CandidateSeeds(t.poll_id, t.candidate_id))>>)
    IN IF pre # Ok THEN Outcome(pre, acc)
       ELSE IF created.err # Ok THEN created
       ELSE Outcome(post, created.accounts)

(* VoteAccounts with a constraint that the poll's time window is open. *)
VoteAccounts_RequiresOpenPoll(acc, t) ==
    LET pre == FirstError(<<SignerCheck(t),
                            AccountTryFrom(acc, t.accs.poll, "Poll"),
                            AccountTryFrom(acc, t.accs.candidate, "Candidate"),
                            SeedsCheck(t.accs.vote, VoteSeeds(t.poll_id, t.signer))>>)
        created == InitVoteAccount(acc, t.accs.vote)
        post == FirstError(<<SeedsCheck(t.accs.poll, PollSeeds(t.poll_id)),
                             SeedsCheck(t.accs.candidate,
                                        CandidateSeeds(t.poll_id, t.candidate_id)),
                             IF acc[t.accs.poll].data.start_time
                                    <= acc[t.accs.poll].data.end_time
                             THEN Ok ELSE "ConstraintRaw">>)
    IN IF pre # Ok THEN Outcome(pre, acc)
       ELSE IF created.err # Ok THEN created
       ELSE Outcome(post, created.accounts)

VoteAccounts(acc, t) ==
    LET pre == FirstError(<<SignerCheck(t),
                            AccountTryFrom(acc, t.accs.poll, "Poll"),
                            AccountTryFrom(acc, t.accs.candidate, "Candidate"),
                            SeedsCheck(t.accs.vote, VoteSeeds(t.poll_id, t.signer))>>)
        created == InitVoteAccount(acc, t.accs.vote)
        post == FirstError(<<SeedsCheck(t.accs.poll, PollSeeds(t.poll_id)),
                             SeedsCheck(t.accs.candidate,
                                        CandidateSeeds(t.poll_id, t.candidate_id))>>)
    IN IF pre # Ok THEN Outcome(pre, acc)
       ELSE IF created.err # Ok THEN created
       ELSE Outcome(post, created.accounts)

(***************************************************************************)
(* The instruction handlers: the new ledger and the lines logged.          *)
(***************************************************************************)
(* initialize_poll that forgets to assign poll.candidates. *)
initialize_poll_KeepsCandidates(acc, t) ==
    LET poll == Poll(t.poll_id, t.description, acc[t.accs.poll].data.candidates,
                     t.start_time, t.end_time)
    IN [accounts |-> [acc EXCEPT ![t.accs.poll].data = poll],
        logs |-> <<<<"Poll initialized successfully">>>>]

initialize_poll(acc, t) ==
    LET poll == Poll(t.poll_id, t.description, t.candidates, t.start_time, t.end_time)
    IN [accounts |-> [acc EXCEPT ![t.accs.poll].data = poll],
        logs |-> <<<<"Poll initialized successfully">>,
                   <<"Poll ID: ", poll.poll_id>>,
                   <<"Description: ", poll.description>>,
                   <<"Candidates: ", poll.candidates>>,
                   <<"Start time: ", poll.start_time>>,
                   <<"End time: ", poll.end_time>>>>]

(* initialize_candidate that also counts the candidate in the poll. *)
initialize_candidate_CountsInPoll(acc, t) ==
    LET candidate == Candidate(t.signer, t.name, t.description)
    IN [accounts |-> [acc EXCEPT ![t.accs.candidate].data = candidate,
                                 ![t.accs.poll].data.candidates = @ + 1],
        logs |-> <<<<"Candidate initialized successfully">>>>]

initialize_candidate(acc, t) ==
    LET candidate == Candidate(t.signer, t.name, t.description)
    IN [accounts |-> [acc EXCEPT ![t.accs.candidate].data = candidate],
        logs |-> <<<<"Candidate initialized successfully">>,
                   <<"Candidate ID: ", candidate.candidate_id>>,
                   <<"Name: ", candidate.name>>,
                   <<"Description: ", candidate.description>>>>]

(* vote that closes the candidate account it voted for. *)
vote_ClosesCandidate(acc, t) ==
    LET vote_record == VoteRecord(t.signer, t.poll_id, t.candidate_id)
    IN [accounts |-> [acc EXCEPT ![t.accs.vote].data = vote_record,
                                 ![t.accs.candidate] = Unallocated],
        logs |-> <<<<"Vote recorded successfully">>>>]

(* vote that also counts the vote in poll.candidates. *)
vote_CountsInPoll(acc, t) ==
    LET vote_record == VoteRecord(t.signer, t.poll_id, t.candidate_id)
    IN [accounts |-> [acc EXCEPT ![t.accs.vote].data = vote_record,
                                 ![t.accs.poll].data.candidates = @ + 1],
        logs |-> <<<<"Vote recorded successfully">>>>]

(* vote that records the voted-for candidate as the voter. *)
vote_CandidateAsVoter(acc, t) ==
    LET vote_record == VoteRecord(t.candidate_id, t.poll_id, t.candidate_id)
    IN [accounts |-> [acc EXCEPT ![t.accs.vote].data = vote_record],
        logs |-> <<<<"Vote recorded successfully">>>>]

vote(acc, t) ==
    LET vote_record == VoteRecord(t.signer, t.poll_id, t.candidate_id)
    IN [accounts |-> [acc EXCEPT ![t.accs.vote].data = vote_record],
        logs |-> <<<<"Vote recorded successfully">>,
                   <<"Voter: ", vote_record.voter>>,
                   <<"Poll ID: ", vote_record.poll_id>>,
                   <<"Candidate: ", vote_record.candidate>>>>]

(***************************************************************************)
(* Execution of one instruction: validate the accounts, run the handler,   *)
(* serialise the accounts on exit.  The outcome carries the ledger as the  *)
(* instruction left it, which the runtime keeps only on success.           *)
(***************************************************************************)
Executed(err, acc, logs) == [err |-> err, accounts |-> acc, logs |-> logs]

ExecuteInitializePoll(acc, t) ==
    LET validated == InitializePollAccounts(acc, t)
        handled == initialize_poll(validated.accounts, t)
        exited == AccountsExit(handled.accounts, <<t.accs.poll>>)
    IN IF validated.err # Ok THEN Executed(validated.err, validated.accounts, <<>>)
       ELSE Executed(exited.err, exited.accounts, handled.logs)

ExecuteInitializeCandidate(acc, t) ==
    LET validated == InitializeCandidateAccounts(acc, t)
        handled == initialize_candidate(validated.accounts, t)
        exited == AccountsExit(handled.accounts, <<t.accs.poll, t.accs.candidate>>)
    IN IF validated.err # Ok THEN Executed(validated.err, validated.accounts, <<>>)
       ELSE Executed(exited.err, exited.accounts, handled.logs)

ExecuteVote(acc, t) ==
    LET validated == VoteAccounts(acc, t)
        handled == vote(validated.accounts, t)
        exited == AccountsExit(handled.accounts,
                               <<t.accs.poll, t.accs.candidate, t.accs.vote>>)
    IN IF validated.err # Ok THEN Executed(validated.err, validated.accounts, <<>>)
       ELSE Executed(exited.err, exited.accounts, handled.logs)

(* Commit that keeps the writes of a failed transaction. *)
Commit_KeepsFailedWrites(pre, executed) == executed.accounts

(* The runtime commits the writes of a transaction only when it succeeds. *)
Commit(pre, executed) == IF executed.err = Ok THEN executed.accounts ELSE pre

(***************************************************************************)
(* Transactions a client can submit.                                       *)
(***************************************************************************)
PollArgs ==
    {[description |-> Str(1, 97), candidates |-> 2,
      start_time |-> 1000, end_time |-> 2000],
     [description |-> Str(POLL_DESCRIPTION_MAX_LEN, 98), candidates |-> 0,
      start_time |-> 2000, end_time |-> 1000],
     [description |-> Str(POLL_DESCRIPTION_MAX_LEN + 1, 99), candidates |-> 2,
      start_time |-> 1000, end_time |-> 2000]}

CandidateArgs ==
    {[name |-> Str(1, 97), description |-> Str(1, 98)],
     [name |-> Str(CANDIDATE_NAME_MAX_LEN, 99),
      description |-> Str(CANDIDATE_DESCRIPTION_MAX_LEN, 100)],
     [name |-> Str(CANDIDATE_NAME_MAX_LEN + 1, 101), description |-> Str(1, 98)],
     [name |-> Str(CANDIDATE_NAME_MAX_LEN + 1, 101),
      description |-> Str(CANDIDATE_DESCRIPTION_MAX_LEN, 100)]}

InitializePollTx(signer, is_signer, poll_id, args, poll) ==
    [ix |-> "initialize_poll", signer |-> signer, is_signer |-> is_signer,
     poll_id |-> poll_id, description |-> args.description,
     candidates |-> args.candidates, start_time |-> args.start_time,
     end_time |-> args.end_time, accs |-> [poll |-> poll]]

InitializeCandidateTx(signer, is_signer, poll_id, args, poll, candidate) ==
    [ix |-> "initialize_candidate", signer |-> signer, is_signer |-> is_signer,
     poll_id |-> poll_id, name |-> args.name, description |-> args.description,
     accs |-> [poll |-> poll, candidate |-> candidate]]

VoteTx(signer, is_signer, poll_id, candidate_id, poll, candidate, vote_account) ==
    [ix |-> "vote", signer |-> signer, is_signer |-> is_signer,
     poll_id |-> poll_id, candidate_id |-> candidate_id,
     accs |-> [poll |-> poll, candidate |-> candidate, vote |-> vote_account]]

(* Transactions whose accounts are the addresses derived from their        *)
(* arguments and signer, as a client of the program builds them.           *)
DerivedInitializePollTxs ==
    {InitializePollTx(s, b, p, a, PollAddress(p)) :
        s \in Keys, b \in BOOLEAN, p \in PollIds, a \in PollArgs}

DerivedInitializeCandidateTxs ==
    {InitializeCandidateTx(s, b, p, a, PollAddress(p), CandidateAddress(p, s)) :
        s \in Keys, b \in BOOLEAN, p \in PollIds, a \in CandidateArgs}

DerivedVoteTxs ==
    {VoteTx(s, b, p, c, PollAddress(p), CandidateAddress(p, c), VoteAddress(p, s)) :
        s \in Keys, b \in BOOLEAN, p \in PollIds, c \in Keys}

(***************************************************************************)
(* The state machine.  Each instruction is one atomic step that takes a    *)
(* transaction and executes it; Respond returns the outcome to the client, *)
(* after which the next transaction is taken.                              *)
(***************************************************************************)
Init ==
    /\ accounts = [a \in Addresses |-> Unallocated]
    /\ tx = NoTx
    /\ result = NoResult
    /\ prev = accounts

(* The next transaction is taken while fewer than MaxAccounts exist. *)
Ready ==
    /\ tx = NoTx
    /\ Cardinality(Existing(accounts)) < MaxAccounts

Run(t, executed) ==
    /\ tx' = t
    /\ accounts' = Commit(accounts, executed)
    /\ result' = [err |-> executed.err, logs |-> executed.logs]
    /\ prev' = accounts

InitializePoll ==
    /\ Ready
    /\ \E t \in DerivedInitializePollTxs : Run(t, ExecuteInitializePoll(accounts, t))

InitializeCandidate ==
    /\ Ready
    /\ \E t \in DerivedInitializeCandidateTxs :
          Run(t, ExecuteInitializeCandidate(accounts, t))

Vote ==
    /\ Ready
    /\ \E t \in DerivedVoteTxs : Run(t, ExecuteVote(accounts, t))

Respond ==
    /\ tx # NoTx
    /\ tx' = NoTx
    /\ result' = NoResult
    /\ prev' = accounts
    /\ UNCHANGED accounts

Next == InitializePoll \/ InitializeCandidate \/ Vote \/ Respond

Spec == Init /\ [][Next]_vars

(***************************************************************************)
(* A client is free to pass any accounts with an instruction.  SpecAny     *)
(* takes transactions in which one account is an arbitrary address of the  *)
(* ledger instead of the one derived from the arguments and the signer.    *)
(***************************************************************************)
ShortPollArgs == {a \in PollArgs : Len(a.description) = 1}

ShortCandidateArgs ==
    {a \in CandidateArgs : Len(a.name) = 1 /\ Len(a.description) = 1}

AnyInitializePollTxs ==
    {InitializePollTx(s, b, p, a, pa) :
        s \in Keys, b \in BOOLEAN, p \in PollIds, a \in ShortPollArgs,
        pa \in Addresses}

AnyInitializeCandidateTxs ==
    UNION {{InitializeCandidateTx(s, b, p, a, x, CandidateAddress(p, s)),
            InitializeCandidateTx(s, b, p, a, PollAddress(p), x)} :
        s \in Keys, b \in BOOLEAN, p \in PollIds, a \in ShortCandidateArgs,
        x \in Addresses}

AnyVoteTxs ==
    UNION {{VoteTx(s, b, p, c, x, CandidateAddress(p, c), VoteAddress(p, s)),
            VoteTx(s, b, p, c, PollAddress(p), x, VoteAddress(p, s)),
            VoteTx(s, b, p, c, PollAddress(p), CandidateAddress(p, c), x)} :
        s \in Keys, b \in BOOLEAN, p \in PollIds, c \in Keys, x \in Addresses}

InitializePollAny ==
    /\ Ready
    /\ \E t \in AnyInitializePollTxs : Run(t, ExecuteInitializePoll(accounts, t))

InitializeCandidateAny ==
    /\ Ready
    /\ \E t \in AnyInitializeCandidateTxs :
          Run(t, ExecuteInitializeCandidate(accounts, t))

VoteAny ==
    /\ Ready
    /\ \E t \in AnyVoteTxs : Run(t, ExecuteVote(accounts, t))

NextAny == InitializePollAny \/ InitializeCandidateAny \/ VoteAny \/ Respond

SpecAny == Init /\ [][NextAny]_vars

(***************************************************************************)
(* Vocabulary of the properties.  In a state where Done holds, tx is the   *)
(* transaction just executed, result its outcome, prev the ledger before   *)
(* it and accounts the ledger after it.                                    *)
(***************************************************************************)
Done == tx # NoTx

Derived(t) ==
    CASE t.ix = "initialize_poll" -> t.accs.poll = PollAddress(t.poll_id)
      [] t.ix = "initialize_candidate" ->
            /\ t.accs.poll = PollAddress(t.poll_id)
            /\ t.accs.candidate = CandidateAddress(t.poll_id, t.signer)
      [] t.ix = "vote" ->
            /\ t.accs.poll = PollAddress(t.poll_id)
            /\ t.accs.candidate = CandidateAddress(t.poll_id, t.candidate_id)
            /\ t.accs.vote = VoteAddress(t.poll_id, t.signer)
      [] OTHER -> FALSE

(* The request `ix`, made by an authenticated caller, has been executed. *)
Requested(ix) == Done /\ tx.ix = ix /\ tx.is_signer /\ Derived(tx)

HasRecord(acc, a, disc) == Exists(acc, a) /\ acc[a].disc = disc

HasPoll(acc, p) == HasRecord(acc, PollAddress(p), "Poll")
HasCandidate(acc, p, k) == HasRecord(acc, CandidateAddress(p, k), "Candidate")
HasVote(acc, p, k) == HasRecord(acc, VoteAddress(p, k), "VoteRecord")

(***************************************************************************)
(* C1 (as amended).  Once VoteRecord[P, V] exists, every later CastVote by *)
(* V for P fails and changes nothing: with the already-in-use error when   *)
(* the candidate reference names an existing Candidate of P, and with the  *)
(* account-not-initialized error when no Candidate record exists for it.   *)
(***************************************************************************)
C1_RevoteFails ==
    (Requested("vote") /\ HasVote(prev, tx.poll_id, tx.signer)) =>
        /\ result.err = IF HasCandidate(prev, tx.poll_id, tx.candidate_id)
                        THEN "AccountAlreadyInUse"
                        ELSE "AccountNotInitialized"
        /\ accounts = prev

C1_Witness ==
    /\ Requested("vote")
    /\ HasVote(prev, tx.poll_id, tx.signer)
    /\ HasCandidate(prev, tx.poll_id, tx.candidate_id)
    /\ result.err = "AccountAlreadyInUse"

(* C1 as stated: the later CastVote fails with the already-exists error    *)
(* whatever the candidate reference.                                       *)
C1_RevoteAlwaysAlreadyExists ==
    (Requested("vote") /\ HasVote(prev, tx.poll_id, tx.signer)) =>
        result.err = "AccountAlreadyInUse"

(***************************************************************************)
(* C2.  RegisterCandidate by A for P when Candidate[P, A] exists fails     *)
(* with the already-in-use error and the stored Candidate[P, A] stays what *)
(* it was, whatever name and description the call supplies.                *)
(***************************************************************************)
C2_ReRegisterFails ==
    (Requested("initialize_candidate") /\ HasCandidate(prev, tx.poll_id, tx.signer)) =>
        /\ result.err = "AccountAlreadyInUse"
        /\ accounts[CandidateAddress(tx.poll_id, tx.signer)]
             = prev[CandidateAddress(tx.poll_id, tx.signer)]
        /\ accounts = prev

C2_Witness ==
    /\ Requested("initialize_candidate")
    /\ HasCandidate(prev, tx.poll_id, tx.signer)
    /\ tx.name # prev[CandidateAddress(tx.poll_id, tx.signer)].data.name
    /\ tx.description # prev[CandidateAddress(tx.poll_id, tx.signer)].data.description
    /\ result.err = "AccountAlreadyInUse"

(***************************************************************************)
(* C3.  After a successful CreatePoll, Poll[poll_id] holds exactly the     *)
(* supplied poll_id, description, candidate_count, start_time and          *)
(* end_time, whether or not a Poll existed at poll_id before.              *)
(***************************************************************************)
C3_PollReflectsInputs ==
    (Done /\ tx.ix = "initialize_poll" /\ result.err = Ok) =>
        /\ HasPoll(accounts, tx.poll_id)
        /\ accounts[PollAddress(tx.poll_id)].disc = "Poll"
        /\ accounts[PollAddress(tx.poll_id)].data
             = Poll(tx.poll_id, tx.description, tx.candidates,
                    tx.start_time, tx.end_time)

C3_Witness ==
    /\ Done /\ tx.ix = "initialize_poll" /\ result.err = Ok
    /\ HasPoll(prev, tx.poll_id)
    /\ prev[PollAddress(tx.poll_id)].data.description # tx.description
    /\ prev[PollAddress(tx.poll_id)].data.candidates # tx.candidates
    /\ prev[PollAddress(tx.poll_id)].data.start_time # tx.start_time
    /\ prev[PollAddress(tx.poll_id)].data.end_time # tx.end_time

(***************************************************************************)
(* C4 (as amended).  An existing Poll record is changed by no              *)
(* RegisterCandidate, no CastVote and no failed request, and its poll_id   *)
(* never changes; the only request that changes it is a successful         *)
(* CreatePoll for that same poll_id, which replaces its description,       *)
(* candidate_count, start_time and end_time by the supplied values.        *)
(***************************************************************************)
C4_PollChangedOnlyByCreatePoll ==
    Done =>
        \A p \in PollIds :
            HasPoll(prev, p) =>
                \/ accounts[PollAddress(p)] = prev[PollAddress(p)]
                \/ /\ tx.ix = "initialize_poll"
                   /\ tx.poll_id = p
                   /\ result.err = Ok
                   /\ accounts[PollAddress(p)]
                        = [prev[PollAddress(p)] EXCEPT
                             !.data = Poll(p, tx.description, tx.candidates,
                                           tx.start_time, tx.end_time)]

C4_Witness ==
    /\ Done /\ tx.ix = "initialize_candidate" /\ result.err = Ok
    /\ HasPoll(prev, tx.poll_id)
    /\ accounts[PollAddress(tx.poll_id)] = prev[PollAddress(tx.poll_id)]

(* C4 as stated: no request of any kind changes an existing Poll record. *)
C4_PollImmutable ==
    Done =>
        \A p \in PollIds :
            HasPoll(prev, p) => accounts[PollAddress(p)] = prev[PollAddress(p)]

(***************************************************************************)
(* C5.  A CastVote by a voter V who has not voted in P, for a candidate    *)
(* registered in P, succeeds whoever else has voted in P: it creates       *)
(* VoteRecord[P, V] with voter V, poll P and the supplied candidate, at an *)
(* address distinct from every other voter's, and leaves the other voters' *)
(* records as they were.                                                   *)
(***************************************************************************)
C5_DistinctVotersBothSucceed ==
    (/\ Requested("vote")
     /\ ~HasVote(prev, tx.poll_id, tx.signer)
     /\ HasCandidate(prev, tx.poll_id, tx.candidate_id)) =>
        /\ result.err = Ok
        /\ HasVote(accounts, tx.poll_id, tx.signer)
        /\ accounts[VoteAddress(tx.poll_id, tx.signer)].data
             = VoteRecord(tx.signer, tx.poll_id, tx.candidate_id)
        /\ \A v \in Keys \ {tx.signer} :
              /\ VoteAddress(tx.poll_id, v) # VoteAddress(tx.poll_id, tx.signer)
              /\ accounts[VoteAddress(tx.poll_id, v)] = prev[VoteAddress(tx.poll_id, v)]

C5_Witness ==
    /\ Requested("vote") /\ result.err = Ok
    /\ \E v \in Keys \ {tx.signer} :
          /\ HasVote(accounts, tx.poll_id, v)
          /\ accounts[VoteAddress(tx.poll_id, v)].data.voter = v
          /\ accounts[VoteAddress(tx.poll_id, v)].data.candidate = tx.candidate_id
    /\ accounts[VoteAddress(tx.poll_id, tx.signer)].data.voter = tx.signer

(***************************************************************************)
(* C6.  CreatePoll with a description longer than 280 bytes is rejected    *)
(* with the serialisation (length) error and writes nothing: an absent     *)
(* Poll stays absent and an existing one is unchanged; and every stored    *)
(* Poll has a description of at most 280 bytes.                            *)
(***************************************************************************)
C6_LongPollDescriptionRejected ==
    /\ (Requested("initialize_poll")
        /\ Len(tx.description) > POLL_DESCRIPTION_MAX_LEN) =>
            /\ result.err = "AccountDidNotSerialize"
            /\ accounts = prev
    /\ \A p \in PollIds :
          HasPoll(accounts, p) =>
              Len(accounts[PollAddress(p)].data.description) <= POLL_DESCRIPTION_MAX_LEN

C6_Witness ==
    /\ Requested("initialize_poll")
    /\ Len(tx.description) = POLL_DESCRIPTION_MAX_LEN + 1
    /\ result.err = "AccountDidNotSerialize"
    /\ HasPoll(prev, tx.poll_id)
    /\ \E p \in PollIds :
          /\ HasPoll(accounts, p)
          /\ Len(accounts[PollAddress(p)].data.description) = POLL_DESCRIPTION_MAX_LEN

(***************************************************************************)
(* C7.  RegisterCandidate with a name longer than 280 bytes, or with a     *)
(* description longer than 280 bytes, is rejected with the serialisation   *)
(* (length) error and creates no Candidate, whatever the length of the     *)
(* other field; and every stored Candidate has a name of at most 280 bytes *)
(* and a description of at most 280 bytes.                                 *)
(***************************************************************************)
C7_LongCandidateFieldRejected ==
    /\ (Requested("initialize_candidate")
        /\ HasPoll(prev, tx.poll_id)
        /\ ~HasCandidate(prev, tx.poll_id, tx.signer)
        /\ (\/ Len(tx.name) > CANDIDATE_NAME_MAX_LEN
            \/ Len(tx.description) > CANDIDATE_DESCRIPTION_MAX_LEN)) =>
            /\ result.err = "AccountDidNotSerialize"
            /\ accounts = prev
    /\ \A p \in PollIds, k \in Keys :
          HasCandidate(accounts, p, k) =>
              /\ Len(accounts[CandidateAddress(p, k)].data.name)
                    <= CANDIDATE_NAME_MAX_LEN
              /\ Len(accounts[CandidateAddress(p, k)].data.description)
                    <= CANDIDATE_DESCRIPTION_MAX_LEN

(***************************************************************************)
(* C8 (as amended).  RegisterCandidate requires the Poll record: a call by *)
(* an authenticated caller A for poll_id P with a name and a description   *)
(* of at most 280 bytes each and no prior Candidate[P, A] succeeds and     *)
(* creates Candidate[P, A] when Poll[P] exists, and fails with the         *)
(* account-not-initialized error, creating nothing, when it does not.      *)
(***************************************************************************)
C8_RegisterNeedsPoll ==
    (/\ Requested("initialize_candidate")
     /\ Len(tx.name) <= CANDIDATE_NAME_MAX_LEN
     /\ Len(tx.description) <= CANDIDATE_DESCRIPTION_MAX_LEN
     /\ ~HasCandidate(prev, tx.poll_id, tx.signer)) =>
        IF HasPoll(prev, tx.poll_id)
        THEN /\ result.err = Ok
             /\ HasCandidate(accounts, tx.poll_id, tx.signer)
             /\ accounts[CandidateAddress(tx.poll_id, tx.signer)].data
                  = Candidate(tx.signer, tx.name, tx.description)
        ELSE /\ result.err = "AccountNotInitialized"
             /\ accounts = prev

C8_Witness ==
    /\ Requested("initialize_candidate")
    /\ Len(tx.name) <= CANDIDATE_NAME_MAX_LEN
    /\ Len(tx.description) <= CANDIDATE_DESCRIPTION_MAX_LEN
    /\ ~HasPoll(prev, tx.poll_id)
    /\ \E p \in PollIds : HasPoll(prev, p)
    /\ result.err = "AccountNotInitialized"

(* C8 as stated: the call succeeds and creates Candidate[P, A] even when   *)
(* no Poll record exists for P.                                            *)
C8_RegisterWithoutPollSucceeds ==
    (/\ Requested("initialize_candidate")
     /\ Len(tx.name) <= CANDIDATE_NAME_MAX_LEN
     /\ Len(tx.description) <= CANDIDATE_DESCRIPTION_MAX_LEN
     /\ ~HasCandidate(prev, tx.poll_id, tx.signer)
     /\ ~HasPoll(prev, tx.poll_id)) =>
        /\ result.err = Ok
        /\ HasCandidate(accounts, tx.poll_id, tx.signer)

(***************************************************************************)
(* C9 (as amended).  CastVote validates the candidate reference: a call by *)
(* an authenticated caller V for an existing poll P with no prior          *)
(* VoteRecord[P, V] succeeds and creates VoteRecord[P, V] with candidate = *)
(* candidate_reference when a Candidate record exists at                   *)
(* (P, candidate_reference), and fails with the account-not-initialized    *)
(* error, creating nothing, when none exists.                              *)
(***************************************************************************)
C9_VoteNeedsCandidate ==
    (/\ Requested("vote")
     /\ HasPoll(prev, tx.poll_id)
     /\ ~HasVote(prev, tx.poll_id, tx.signer)) =>
        IF HasCandidate(prev, tx.poll_id, tx.candidate_id)
        THEN /\ result.err = Ok
             /\ accounts[VoteAddress(tx.poll_id, tx.signer)].data.candidate
                  = tx.candidate_id
        ELSE /\ result.err = "AccountNotInitialized"
             /\ ~HasVote(accounts, tx.poll_id, tx.signer)
             /\ accounts = prev

C9_Witness ==
    /\ Requested("vote")
    /\ HasPoll(prev, tx.poll_id)
    /\ ~HasVote(prev, tx.poll_id, tx.signer)
    /\ ~HasCandidate(prev, tx.poll_id, tx.candidate_id)
    /\ \E k \in Keys : HasCandidate(prev, tx.poll_id, k)
    /\ result.err = "AccountNotInitialized"

(* C9 as stated: the call succeeds and creates VoteRecord[P, V] even when  *)
(* no Candidate record exists at (P, candidate_reference).                 *)
C9_VoteForMissingCandidateSucceeds ==
    (/\ Requested("vote")
     /\ HasPoll(prev, tx.poll_id)
     /\ ~HasVote(prev, tx.poll_id, tx.signer)
     /\ ~HasCandidate(prev, tx.poll_id, tx.candidate_id)) =>
        /\ result.err = Ok
        /\ HasVote(accounts, tx.poll_id, tx.signer)
        /\ accounts[VoteAddress(tx.poll_id, tx.signer)].data.candidate = tx.candidate_id

C11_RecordsNeverDeleted ==
    \A a \in Addresses :
        Exists(prev, a) => HasRecord(accounts, a, prev[a].disc)

C11_Witness ==
    /\ Done /\ result.err = Ok
    /\ \E p \in PollIds, k \in Keys, v \in Keys :
          /\ HasPoll(prev, p) /\ HasCandidate(prev, p, k) /\ HasVote(prev, p, v)
          /\ HasPoll(accounts, p) /\ HasCandidate(accounts, p, k)
          /\ HasVote(accounts, p, v)
    /\ Existing(accounts) # Existing(prev)

C13_OnlyOwnSlotWritten ==
    \A p \in PollIds, k \in Keys :
        /\ accounts[VoteAddress(p, k)] # prev[VoteAddress(p, k)] =>
              /\ tx.ix = "vote" /\ tx.is_signer /\ tx.signer = k /\ tx.poll_id = p
              /\ ~Exists(prev, VoteAddress(p, k))
              /\ HasVote(accounts, p, k)
        /\ accounts[CandidateAddress(p, k)] # prev[CandidateAddress(p, k)] =>
              /\ tx.ix = "initialize_candidate"
              /\ tx.is_signer /\ tx.signer = k /\ tx.poll_id = p
              /\ ~Exists(prev, CandidateAddress(p, k))
              /\ HasCandidate(accounts, p, k)

C13_Witness ==
    /\ Done /\ tx.ix = "vote" /\ tx.is_signer
    /\ tx.accs.poll = PollAddress(tx.poll_id)
    /\ tx.accs.candidate = CandidateAddress(tx.poll_id, tx.candidate_id)
    /\ HasPoll(prev, tx.poll_id)
    /\ HasCandidate(prev, tx.poll_id, tx.candidate_id)
    /\ \E k \in Keys \ {tx.signer} :
          /\ tx.accs.vote = VoteAddress(tx.poll_id, k)
          /\ ~Exists(prev, VoteAddress(tx.poll_id, k))
    /\ result.err = "ConstraintSeeds"
    /\ accounts = prev

(***************************************************************************)
(* C14.  A successful request changes only the record at its own target    *)
(* key: initialize_poll only Poll[poll_id], initialize_candidate only      *)
(* Candidate[poll_id, signer], vote only VoteRecord[poll_id, signer]; the  *)
(* poll and candidate accounts passed as mutable are left as they were.    *)
(***************************************************************************)
Target(t) ==
    CASE t.ix = "initialize_poll" -> PollAddress(t.poll_id)
      [] t.ix = "initialize_candidate" -> CandidateAddress(t.poll_id, t.signer)
      [] t.ix = "vote" -> VoteAddress(t.poll_id, t.signer)

C14_OnlyTargetChanges ==
    (Done /\ result.err = Ok) =>
        \A a \in Addresses \ {Target(tx)} : accounts[a] = prev[a]

C14_Witness ==
    /\ Done /\ tx.ix = "vote" /\ result.err = Ok
    /\ accounts[Target(tx)] # prev[Target(tx)]
    /\ HasPoll(accounts, tx.poll_id)
    /\ accounts[tx.accs.poll] = prev[tx.accs.poll]
    /\ accounts[tx.accs.candidate] = prev[tx.accs.candidate]

(***************************************************************************)
(* C15.  In every state the identity fields of a record agree with the key *)
(* it is stored under: the account at the poll address of P is a Poll with *)
(* poll_id = P, the one at the candidate address of (P, A) a Candidate     *)
(* with candidate_id = A, and the one at the vote address of (P, V) a      *)
(* VoteRecord with voter = V and poll_id = P.                              *)
(***************************************************************************)
C15_RecordsAgreeWithKeys ==
    /\ \A p \in PollIds :
          Exists(accounts, PollAddress(p)) =>
              /\ accounts[PollAddress(p)].disc = "Poll"
              /\ accounts[PollAddress(p)].data.poll_id = p
    /\ \A p \in PollIds, k \in Keys :
          /\ Exists(accounts, CandidateAddress(p, k)) =>
                /\ accounts[CandidateAddress(p, k)].disc = "Candidate"
                /\ accounts[CandidateAddress(p, k)].data.candidate_id = k
          /\ Exists(accounts, VoteAddress(p, k)) =>
                /\ accounts[VoteAddress(p, k)].disc = "VoteRecord"
                /\ accounts[VoteAddress(p, k)].data.voter = k
                /\ accounts[VoteAddress(p, k)].data.poll_id = p

C15_Witness ==
    \E p \in PollIds, k \in Keys, v \in Keys :
        /\ k # v
        /\ HasPoll(accounts, p) /\ HasCandidate(accounts, p, k)
        /\ HasVote(accounts, p, v)
        /\ accounts[VoteAddress(p, v)].data.candidate = k

(***************************************************************************)
(* C16.  CreatePoll is idempotent: a CreatePoll with a description of at   *)
(* most 280 bytes, executed on a ledger whose Poll[poll_id] already holds  *)
(* exactly its inputs (as a first CreatePoll with them leaves it),         *)
(* succeeds and leaves the ledger as it was; and executing a successful    *)
(* CreatePoll once more on the ledger it produced succeeds and produces    *)
(* that same ledger.                                                       *)
(***************************************************************************)
C16_CreatePollIdempotent ==
    /\ (/\ Requested("initialize_poll")
        /\ HasPoll(prev, tx.poll_id)
        /\ prev[PollAddress(tx.poll_id)].data
             = Poll(tx.poll_id, tx.description, tx.candidates,
                    tx.start_time, tx.end_time)) =>
            /\ result.err = Ok
            /\ accounts = prev
    /\ (Requested("initialize_poll")
          /\ Len(tx.description) <= POLL_DESCRIPTION_MAX_LEN) => result.err = Ok
    /\ (Requested("initialize_poll") /\ result.err = Ok) =>
            /\ ExecuteInitializePoll(accounts, tx).err = Ok
            /\ Commit(accounts, ExecuteInitializePoll(accounts, tx)) = accounts

C16_Witness ==
    /\ Requested("initialize_poll")
    /\ HasPoll(prev, tx.poll_id)
    /\ prev[PollAddress(tx.poll_id)].data
         = Poll(tx.poll_id, tx.description, tx.candidates,
                tx.start_time, tx.end_time)
    /\ Len(tx.description) = POLL_DESCRIPTION_MAX_LEN
    /\ result.err = Ok
    /\ accounts = prev

PollFieldVariants ==
    {[candidates |-> 0, start_time |-> 2000, end_time |-> 1000],
     [candidates |-> 2, start_time |-> 1000, end_time |-> 2000],
     [candidates |-> 1, start_time |-> 0, end_time |-> 0]}

WithPollFields(acc, p, f) ==
    IF HasPoll(acc, p)
    THEN [acc EXCEPT ![PollAddress(p)].data.candidates = f.candidates,
                     ![PollAddress(p)].data.start_time = f.start_time,
                     ![PollAddress(p)].data.end_time = f.end_time]
    ELSE acc

C18_PollFieldsNeverRead ==
    /\ (Done /\ tx.ix = "initialize_candidate") =>
          \A f \in PollFieldVariants :
              LET other == WithPollFields(prev, tx.poll_id, f)
                  executed == ExecuteInitializeCandidate(other, tx)
              IN /\ executed.err = result.err
                 /\ Commit(other, executed) = WithPollFields(accounts, tx.poll_id, f)
    /\ (Done /\ tx.ix = "vote") =>
          \A f \in PollFieldVariants :
              LET other == WithPollFields(prev, tx.poll_id, f)
                  executed == ExecuteVote(other, tx)
              IN /\ executed.err = result.err
                 /\ Commit(other, executed) = WithPollFields(accounts, tx.poll_id, f)

C18_Witness ==
    /\ Requested("vote") /\ result.err = Ok
    /\ prev[PollAddress(tx.poll_id)].data.end_time
          < prev[PollAddress(tx.poll_id)].data.start_time
    /\ prev[PollAddress(tx.poll_id)].data.candidates = 0
    /\ HasVote(accounts, tx.poll_id, tx.signer)

(***************************************************************************)
(* C19.  Referential integrity: in every state, for every VoteRecord[P, V] *)
(* with candidate = C both Poll[P] and Candidate[P, C] exist, and for      *)
(* every Candidate[P, A] the Poll[P] exists.                               *)
(***************************************************************************)
C19_ReferentialIntegrity ==
    \A p \in PollIds, k \in Keys :
        /\ HasVote(accounts, p, k) =>
              /\ HasPoll(accounts, p)
              /\ accounts[VoteAddress(p, k)].data.candidate \in Keys
              /\ HasCandidate(accounts, p, accounts[VoteAddress(p, k)].data.candidate)
        /\ HasCandidate(accounts, p, k) => HasPoll(accounts, p)

C19_Witness ==
    /\ Done /\ tx.ix = "vote" /\ result.err = Ok
    /\ ~HasVote(prev, tx.poll_id, tx.signer)
    /\ HasVote(accounts, tx.poll_id, tx.signer)
    /\ HasCandidate(accounts, tx.poll_id, tx.candidate_id)
    /\ \E p \in PollIds : ~HasPoll(accounts, p)
====
